---- MODULE Spec2Model ----
\* State-machine model of flash/image/embedding/model.py: the module-level
\* registries, the ImageEmbedder constructor, its three forwarding callbacks and
\* the available_training_strategies class method.
EXTENDS Integers, Sequences, FiniteSets, TLC

VARIABLES
    backbones,            \* ImageEmbedder.backbones            (registry: sequence of entries)
    training_strategies,  \* ImageEmbedder.training_strategies  (registry: sequence of entries)
    transforms,           \* ImageEmbedder.transforms           (registry: sequence of entries)
    pc,                   \* "idle" | "done" (constructor returned) | "failed" (constructor raised)
    task,                 \* the task object `self`: saved hyper-parameters and adapter reference
    adapters,             \* adapter objects created so far (task.adapter indexes this heap)
    events,               \* calls the constructor made on its collaborators, in order
    warnings,             \* messages handed to warnings.warn, in order
    error,                \* exception that left the constructor (NoError if none)
    taskCalls,            \* callbacks the trainer invoked on the task, in order
    listed                \* value last returned by available_training_strategies

vars == <<backbones, training_strategies, transforms, pc, task, adapters, events,
          warnings, error, taskCalls, listed>>

----------------------------------------------------------------------------
\* Bounds of the model.

MaxCalls == 2   \* trainer callbacks delivered to one constructed task

----------------------------------------------------------------------------
\* Values.

None == "None"                  \* Python None where an Optional[Dict] is expected
EmptyKw == "{}"
OptKw == "{opt=1}"              \* a mapping every factory accepts
BogusKw == "{bogus=1}"          \* a mapping naming a keyword no factory accepts
Mappings == {EmptyKw, OptKw, BogusKw}
KwargsValues == {None} \cup Mappings

\* keyword names a mapping carries
KwNames(kw) ==
    CASE kw = EmptyKw -> {}
      [] kw = OptKw -> {"opt"}
      [] kw = BogusKw -> {"bogus"}

PyNone == <<"None">>            \* Python None stored as a state's value
Absent == <<>>                  \* no value / attribute not set
NoError == <<>>

StateTypes == {"CollateFn", "ToTensorTransform", "PostTensorTransform", "PreTensorTransform"}
INPUT == "input"                \* DefaultDataKeys.INPUT

OverrideWarning == "Warning: VISSL ImageEmbedder overrides any user provided transforms with pre-defined transforms for the training strategy."

VisslBackboneKeys == {"resnet"}
UserBackboneKeys == {"dummy"}
VisslStrategyKeys == {"simclr"}
UserStrategyKeys == {"noop", "custom"}
VisslTransformKeys == {"simclr_transform"}
UserTransformKeys == {"identity"}
Heads == {"simclr_head"}

BackboneKeys == VisslBackboneKeys \cup UserBackboneKeys
StrategyKeys == VisslStrategyKeys \cup UserStrategyKeys
TransformKeys == VisslTransformKeys \cup UserTransformKeys

----------------------------------------------------------------------------
\* FlashRegistry: an insertion-ordered list of entries {name, fn, metadata}.

NoMetadata == [k \in {} |-> ""]

Entry(name, fn, metadata) == [name |-> name, fn |-> fn, metadata |-> metadata]

FlashRegistry(name) == <<>>

Has(registry, key) == \E i \in 1..Len(registry) : registry[i].name = key

Get(registry, key) ==
    registry[CHOOSE i \in 1..Len(registry) : registry[i].name = key]

LookupFailure(registry_name, key) == <<"KeyError", registry_name, key>>

IsLookupFailure(e) == Len(e) = 3 /\ e[1] = "KeyError"

available_keys(registry) == [i \in 1..Len(registry) |-> registry[i].name]

register(registry, entry) == Append(registry, entry)

\* adapter class a strategy is registered with; "custom" is registered without
\* an "adapter" entry in its metadata
StrategyMetadata(key) ==
    CASE key = "simclr" -> [adapter |-> "VISSLAdapter"]
      [] key = "noop" -> [adapter |-> "NoopAdapter"]
      [] OTHER -> NoMetadata

\* Registries as the module's imports leave them.
VisslBackbones == <<Entry("resnet", "resnet", NoMetadata)>>
VisslStrategies == <<Entry("simclr", "simclr", StrategyMetadata("simclr"))>>
VisslTransforms == <<Entry("simclr_transform", "simclr_transform", NoMetadata)>>

----------------------------------------------------------------------------
\* Registered factories. A factory raises when handed a keyword it does not take.

Accepts(kw) == KwNames(kw) \subseteq {"opt"}

FactoryError(fn, kw) == <<"TypeError", "unexpected keyword argument", fn, kw>>
MappingError == <<"TypeError", "argument after ** must be a mapping, not NoneType">>
MissingAdapter == <<"KeyError", "adapter">>

BackboneFactory(fn, pretrained, kw) ==
    << <<"backbone", fn, pretrained, kw>>, <<"num_features", fn>> >>

StrategyFactory(fn, head, kw) ==
    << <<"loss_fn", fn, kw>>, <<"head", head, fn>>, <<"hooks", fn>> >>

TransformFactory(fn, kw) ==
    << <<"transform", fn, kw>>, <<"collate_fn", fn>> >>

ApplyToKeys(key, transform) == <<"ApplyToKeys", key, transform>>

\* states an adapter of a class carries when from_task returns
AdapterClassStates(cls) ==
    IF cls = "NoopAdapter"
    THEN [t \in StateTypes |-> <<"preset", t>>]
    ELSE [t \in StateTypes |-> Absent]

from_task(cls, self, loss_fn, backbone, head, hooks) ==
    [cls |-> cls, task |-> self, loss_fn |-> loss_fn, backbone |-> backbone,
     head |-> head, hooks |-> hooks, states |-> AdapterClassStates(cls),
     calls |-> <<>>]

set_state(adapter, type, value) ==
    [adapter EXCEPT !.states = [@ EXCEPT ![type] = value]]

Event(op, target, arg, kw) == [op |-> op, target |-> target, arg |-> arg, kw |-> kw]

----------------------------------------------------------------------------
\* ImageEmbedder.__init__

NoArgs ==
    [training_strategy |-> "-", head |-> "-", pretraining_transform |-> "-",
     backbone |-> "-", pretrained |-> FALSE, backbone_kwargs |-> None,
     training_strategy_kwargs |-> None, pretraining_transform_kwargs |-> None]

\* argument tuples a caller may pass (omitted kwargs arguments arrive as None)
Args ==
    [training_strategy : StrategyKeys, head : Heads,
     pretraining_transform : TransformKeys, backbone : BackboneKeys,
     pretrained : BOOLEAN, backbone_kwargs : KwargsValues,
     training_strategy_kwargs : KwargsValues,
     pretraining_transform_kwargs : KwargsValues]

NewTask == [hparams |-> NoArgs, adapter |-> 0]

Raise(c, e) == [c EXCEPT !.error = e]

Log(c, e) == [c EXCEPT !.events = Append(@, e)]

\* lines 91-95: `if kwargs is None: kwargs = {}`
DefaultKwargs(kw) == IF kw = None THEN EmptyKw ELSE kw

\* lines 89-95: save the hyper-parameters, then default two of the kwargs
Begin(a) ==
    [error |-> NoError,
     task |-> [task EXCEPT !.hparams = a],
     adapters |-> adapters,
     events |-> events,
     warnings |-> warnings,
     a |-> a,
     backbone_kwargs |-> DefaultKwargs(a.backbone_kwargs),
     training_strategy_kwargs |-> DefaultKwargs(a.training_strategy_kwargs),
     pretraining_transform_kwargs |-> a.pretraining_transform_kwargs,
     backbone |-> Absent, metadata |-> Entry("-", "-", NoMetadata),
     loss_fn |-> Absent, head |-> Absent, hooks |-> Absent, adapter |-> 0,
     transform |-> Absent, collate_fn |-> Absent]

\* line 97: backbone, _ = self.backbones.get(backbone)(pretrained=pretrained, **backbone_kwargs)
ResolveBackbone(c) ==
    IF c.error # NoError THEN c
    ELSE LET key == c.a.backbone
             kw == c.backbone_kwargs
             c1 == Log(c, Event("get", "backbones", key, {}))
         IN IF ~Has(backbones, key) THEN Raise(c1, LookupFailure("backbones", key))
            ELSE IF kw = None THEN Raise(c1, MappingError)
            ELSE LET fn == Get(backbones, key).fn
                     c2 == Log(c1, Event("call", "backbones", fn,
                                         {"pretrained"} \cup KwNames(kw)))
                 IN IF ~Accepts(kw) THEN Raise(c2, FactoryError(fn, kw))
                    ELSE [c2 EXCEPT !.backbone =
                              BackboneFactory(fn, c.a.pretrained, kw)[1]]

\* lines 99-100: metadata = self.training_strategies.get(training_strategy, with_metadata=True)
\*                loss_fn, head, hooks = metadata["fn"](head=head, **training_strategy_kwargs)
ResolveStrategy(c) ==
    IF c.error # NoError THEN c
    ELSE LET key == c.a.training_strategy
             kw == c.training_strategy_kwargs
             c1 == Log(c, Event("get", "embedder_training_strategies", key, {}))
         IN IF ~Has(training_strategies, key)
            THEN Raise(c1, LookupFailure("embedder_training_strategies", key))
            ELSE IF kw = None THEN Raise(c1, MappingError)
            ELSE LET metadata == Get(training_strategies, key)
                     c2 == Log(c1, Event("call", "embedder_training_strategies",
                                         metadata.fn, {"head"} \cup KwNames(kw)))
                 IN IF ~Accepts(kw) THEN Raise(c2, FactoryError(metadata.fn, kw))
                    ELSE LET out == StrategyFactory(metadata.fn, c.a.head, kw)
                         IN [c2 EXCEPT !.metadata = metadata, !.loss_fn = out[1],
                                       !.head = out[2], !.hooks = out[3]]

\* Variant of CreateAdapter: head and hooks passed under each other's keyword.
CreateAdapterSwapped(c) ==
    IF c.error # NoError THEN c
    ELSE IF "adapter" \notin DOMAIN c.metadata.metadata THEN Raise(c, MissingAdapter)
    ELSE LET cls == c.metadata.metadata.adapter
             c1 == Log(c, Event("from_task", "adapter", cls,
                                {"loss_fn", "backbone", "head", "hooks"}))
         IN [c1 EXCEPT !.adapters = Append(@, from_task(cls, "self", c.loss_fn,
                                                        c.backbone, c.hooks, c.head)),
                       !.adapter = Len(c.adapters) + 1]

\* lines 102-108: adapter = metadata["metadata"]["adapter"].from_task(self, loss_fn=..., ...)
CreateAdapter(c) ==
    IF c.error # NoError THEN c
    ELSE IF "adapter" \notin DOMAIN c.metadata.metadata THEN Raise(c, MissingAdapter)
    ELSE LET cls == c.metadata.metadata.adapter
             c1 == Log(c, Event("from_task", "adapter", cls,
                                {"loss_fn", "backbone", "head", "hooks"}))
         IN [c1 EXCEPT !.adapters = Append(@, from_task(cls, "self", c.loss_fn,
                                                        c.backbone, c.head, c.hooks)),
                       !.adapter = Len(c.adapters) + 1]

\* lines 110-117: super().__init__(adapter=adapter, ...)
BaseInit(c) ==
    IF c.error # NoError THEN c
    ELSE LET c1 == Log(c, Event("base_init", "AdapterTask", "adapter", {}))
         IN [c1 EXCEPT !.task.adapter = c.adapter]

\* Variant of ResolveTransform: the kwargs are unpacked before the registry is asked.
ResolveTransformUnpackFirst(c) ==
    IF c.error # NoError THEN c
    ELSE LET key == c.a.pretraining_transform
             kw == c.pretraining_transform_kwargs
         IN IF kw = None THEN Raise(c, MappingError)
            ELSE LET c1 == Log(c, Event("get", "embedder_transforms", key, {}))
                 IN IF ~Has(transforms, key)
                    THEN Raise(c1, LookupFailure("embedder_transforms", key))
                    ELSE LET fn == Get(transforms, key).fn
                             c2 == Log(c1, Event("call", "embedder_transforms", fn,
                                                 KwNames(kw)))
                         IN IF ~Accepts(kw) THEN Raise(c2, FactoryError(fn, kw))
                            ELSE LET out == TransformFactory(fn, kw)
                                 IN [c2 EXCEPT !.transform = out[1],
                                               !.collate_fn = out[2]]

\* line 119: transform, collate_fn = self.transforms.get(pretraining_transform)(**pretraining_transform_kwargs)
ResolveTransform(c) ==
    IF c.error # NoError THEN c
    ELSE LET key == c.a.pretraining_transform
             kw == c.pretraining_transform_kwargs
             c1 == Log(c, Event("get", "embedder_transforms", key, {}))
         IN IF ~Has(transforms, key)
            THEN Raise(c1, LookupFailure("embedder_transforms", key))
            ELSE IF kw = None THEN Raise(c1, MappingError)
            ELSE LET fn == Get(transforms, key).fn
                     c2 == Log(c1, Event("call", "embedder_transforms", fn, KwNames(kw)))
                 IN IF ~Accepts(kw) THEN Raise(c2, FactoryError(fn, kw))
                    ELSE LET out == TransformFactory(fn, kw)
                         IN [c2 EXCEPT !.transform = out[1], !.collate_fn = out[2]]

SetOne(c, type, value) ==
    LET c1 == Log(c, Event("set_state", "adapter", type, {}))
    IN [c1 EXCEPT !.adapters[c.task.adapter] = set_state(@, type, value)]

\* Variant of InstallStates: the pre-tensor transform state is left as it was.
InstallStatesKeepPre(c) ==
    IF c.error # NoError THEN c
    ELSE LET to_tensor_transform == ApplyToKeys(INPUT, c.transform)
         IN SetOne(SetOne(SetOne(c,
                "CollateFn", c.collate_fn),
                "ToTensorTransform", to_tensor_transform),
                "PostTensorTransform", PyNone)

\* lines 120-128: the four self.adapter.set_state(...) calls
InstallStates(c) ==
    IF c.error # NoError THEN c
    ELSE LET to_tensor_transform == ApplyToKeys(INPUT, c.transform)
         IN SetOne(SetOne(SetOne(SetOne(c,
                "CollateFn", c.collate_fn),
                "ToTensorTransform", to_tensor_transform),
                "PostTensorTransform", PyNone),
                "PreTensorTransform", PyNone)

\* Variant of Warn: the warning is issued twice.
WarnTwice(c) ==
    IF c.error # NoError THEN c
    ELSE LET c1 == Log(c, Event("warn", "warnings", "override", {}))
         IN [c1 EXCEPT !.warnings = Append(Append(@, OverrideWarning), OverrideWarning)]

\* lines 130-133: warnings.warn(...)
Warn(c) ==
    IF c.error # NoError THEN c
    ELSE LET c1 == Log(c, Event("warn", "warnings", "override", {}))
         IN [c1 EXCEPT !.warnings = Append(@, OverrideWarning)]

\* Variant of Constructor: the warning is issued before anything is resolved.
ConstructorWarnFirst(a) ==
    InstallStates(ResolveTransform(BaseInit(CreateAdapter(
        ResolveStrategy(ResolveBackbone(Warn(Begin(a))))))))

\* Variant of Constructor: the transform is resolved with the other selectors,
\* before the adapter is constructed.
ConstructorTransformFirst(a) ==
    Warn(InstallStates(BaseInit(CreateAdapter(
        ResolveTransform(ResolveStrategy(ResolveBackbone(Begin(a))))))))

\* the constructor body, lines 89-133, as one transformation of the context
Constructor(a) ==
    Warn(InstallStates(ResolveTransform(BaseInit(CreateAdapter(
        ResolveStrategy(ResolveBackbone(Begin(a))))))))

\* ImageEmbedder(**a): either returns the task or raises
ImageEmbedderInit(a) ==
    /\ pc = "idle"
    /\ LET c == Constructor(a)
       IN /\ task' = c.task
          /\ adapters' = c.adapters
          /\ events' = c.events
          /\ warnings' = c.warnings
          /\ error' = c.error
          /\ pc' = IF c.error = NoError THEN "done" ELSE "failed"
    /\ UNCHANGED <<backbones, training_strategies, transforms, taskCalls, listed>>

----------------------------------------------------------------------------
\* Forwarding callbacks (lines 135-142), invoked by the trainer on a constructed task.

Received(method, args) ==
    /\ pc = "done"
    /\ Len(taskCalls) < MaxCalls
    /\ taskCalls' = Append(taskCalls, <<method, args>>)

AdapterCall(method, args) ==
    adapters' = [adapters EXCEPT ![task.adapter].calls = Append(@, <<method, args>>)]

TaskUntouched ==
    UNCHANGED <<backbones, training_strategies, transforms, pc, task, events,
                warnings, error, listed>>

on_train_start ==
    /\ Received("on_train_start", <<>>)
    /\ AdapterCall("on_train_start", <<>>)
    /\ TaskUntouched

on_train_epoch_end ==
    /\ Received("on_train_epoch_end", <<>>)
    /\ AdapterCall("on_train_epoch_end", <<>>)
    /\ TaskUntouched

\* Variant of on_train_batch_end: the two indices are forwarded in each other's place.
on_train_batch_end_swapped(outputs, batch, batch_idx, dataloader_idx) ==
    /\ Received("on_train_batch_end", <<outputs, batch, batch_idx, dataloader_idx>>)
    /\ AdapterCall("on_train_batch_end", <<outputs, batch, dataloader_idx, batch_idx>>)
    /\ TaskUntouched

on_train_batch_end(outputs, batch, batch_idx, dataloader_idx) ==
    /\ Received("on_train_batch_end", <<outputs, batch, batch_idx, dataloader_idx>>)
    /\ AdapterCall("on_train_batch_end", <<outputs, batch, batch_idx, dataloader_idx>>)
    /\ TaskUntouched

----------------------------------------------------------------------------
\* available_training_strategies (lines 144-149)

Classes == {"ImageEmbedder", "PlainTask"}

\* getattr(cls, "training_strategies", None)
ClassRegistry(cls) ==
    IF cls = "ImageEmbedder"
    THEN [isNone |-> FALSE, registry |-> training_strategies]
    ELSE [isNone |-> TRUE, registry |-> <<>>]

\* Variant of available_training_strategies: the module-level registry is listed
\* whatever the class.
available_training_strategies_global(cls) ==
    available_keys(training_strategies)

available_training_strategies(cls) ==
    LET got == ClassRegistry(cls)
    IN IF got.isNone THEN <<>> ELSE available_keys(got.registry)

NotListed == [cls |-> "-", keys |-> <<>>]

Available(cls) ==
    /\ listed' = [cls |-> cls, keys |-> available_training_strategies(cls)]
    /\ UNCHANGED <<backbones, training_strategies, transforms, pc, task, adapters,
                   events, warnings, error, taskCalls>>

----------------------------------------------------------------------------
\* Registration of further components before a task is built.

RegisterBackbone(key) ==
    /\ pc = "idle"
    /\ ~Has(backbones, key)
    /\ backbones' = register(backbones, Entry(key, key, NoMetadata))
    /\ UNCHANGED <<training_strategies, transforms, pc, task, adapters, events,
                   warnings, error, taskCalls, listed>>

RegisterStrategy(key) ==
    /\ pc = "idle"
    /\ ~Has(training_strategies, key)
    /\ training_strategies' =
           register(training_strategies, Entry(key, key, StrategyMetadata(key)))
    /\ UNCHANGED <<backbones, transforms, pc, task, adapters, events,
                   warnings, error, taskCalls, listed>>

RegisterTransform(key) ==
    /\ pc = "idle"
    /\ ~Has(transforms, key)
    /\ transforms' = register(transforms, Entry(key, key, NoMetadata))
    /\ UNCHANGED <<backbones, training_strategies, pc, task, adapters, events,
                   warnings, error, taskCalls, listed>>

----------------------------------------------------------------------------
\* Specifications.

\* lines 27-40: with VISSL the registries are imported, without it they are empty
Init ==
    /\ \/ /\ backbones = VisslBackbones
          /\ training_strategies = VisslStrategies
          /\ transforms = VisslTransforms
       \/ /\ backbones = FlashRegistry("backbones")
          /\ training_strategies = FlashRegistry("embedder_training_strategies")
          /\ transforms = FlashRegistry("embedder_transforms")
    /\ pc = "idle"
    /\ task = NewTask
    /\ adapters = <<>>
    /\ events = <<>>
    /\ warnings = <<>>
    /\ error = NoError
    /\ taskCalls = <<>>
    /\ listed = NotListed

Register ==
    \/ \E key \in UserBackboneKeys : RegisterBackbone(key)
    \/ \E key \in UserStrategyKeys : RegisterStrategy(key)
    \/ \E key \in UserTransformKeys : RegisterTransform(key)

Construct == \E a \in Args : ImageEmbedderInit(a)

TrainStart == on_train_start

TrainEpochEnd == on_train_epoch_end

TrainBatchEnd ==
    \E batch_idx \in {0, 1} : on_train_batch_end("outputs", "batch", batch_idx, 0)

Next == Register \/ Construct \/ TrainStart \/ TrainEpochEnd \/ TrainBatchEnd

Spec == Init /\ [][Next]_vars

ListStrategies == \E cls \in Classes : Available(cls)

NextRegistry == Register \/ ListStrategies

SpecRegistry == Init /\ [][NextRegistry]_vars

----------------------------------------------------------------------------
\* Vocabulary of the properties.

Finished == pc \in {"done", "failed"}

Hparams == task.hparams

EventIdx(op, target) ==
    {i \in 1..Len(events) : events[i].op = op /\ events[i].target = target}

OpIdx(op) == {i \in 1..Len(events) : events[i].op = op}

Registries == {"backbones", "embedder_training_strategies", "embedder_transforms"}

BackboneKnown == Has(backbones, Hparams.backbone)
StrategyKnown == Has(training_strategies, Hparams.training_strategy)
TransformKnown == Has(transforms, Hparams.pretraining_transform)

\* a kwargs argument the caller may legitimately pass: omitted, or a mapping of
\* keywords the factory takes
Allowed(kw) == kw = None \/ Accepts(kw)

AdapterNamed ==
    StrategyKnown /\
    "adapter" \in DOMAIN Get(training_strategies, Hparams.training_strategy).metadata

\* the first step of the constructor that raises for arguments a, and what it raises
ExpectedError(a) ==
    IF ~Has(backbones, a.backbone) THEN LookupFailure("backbones", a.backbone)
    ELSE IF a.backbone_kwargs = BogusKw
        THEN FactoryError(Get(backbones, a.backbone).fn, BogusKw)
    ELSE IF ~Has(training_strategies, a.training_strategy)
        THEN LookupFailure("embedder_training_strategies", a.training_strategy)
    ELSE IF a.training_strategy_kwargs = BogusKw
        THEN FactoryError(Get(training_strategies, a.training_strategy).fn, BogusKw)
    ELSE IF "adapter" \notin DOMAIN Get(training_strategies, a.training_strategy).metadata
        THEN MissingAdapter
    ELSE IF ~Has(transforms, a.pretraining_transform)
        THEN LookupFailure("embedder_transforms", a.pretraining_transform)
    ELSE IF a.pretraining_transform_kwargs = None THEN MappingError
    ELSE IF a.pretraining_transform_kwargs = BogusKw
        THEN FactoryError(Get(transforms, a.pretraining_transform).fn, BogusKw)
    ELSE NoError

----------------------------------------------------------------------------
\* C1: whenever the strategy, backbone and transform keys are all registered (the
\* strategy with an adapter class) and every kwargs argument is either omitted or
\* a mapping its factory accepts, the constructor returns a task, and that task's
\* adapter exposes the loss function, backbone, head and hooks.
C1_ConstructionSucceeds ==
    (/\ Finished
     /\ BackboneKnown /\ StrategyKnown /\ TransformKnown /\ AdapterNamed
     /\ Allowed(Hparams.backbone_kwargs)
     /\ Allowed(Hparams.training_strategy_kwargs)
     /\ Allowed(Hparams.pretraining_transform_kwargs))
    => /\ pc = "done"
       /\ task.adapter \in 1..Len(adapters)
       /\ adapters[task.adapter].loss_fn # Absent
       /\ adapters[task.adapter].backbone # Absent
       /\ adapters[task.adapter].head # Absent
       /\ adapters[task.adapter].hooks # Absent

\* C10: a kwargs argument left as None reaches its factory as an empty mapping:
\* once the constructor has resolved a component whose kwargs were omitted, the
\* component's factory has been called with only the pretrained flag (backbone),
\* only the head name (strategy), or no keyword at all (transform).
C10_NoneIsEmptyMapping ==
    Finished =>
      /\ (Hparams.backbone_kwargs = None /\ BackboneKnown
            /\ EventIdx("get", "backbones") # {})
         => \E i \in EventIdx("call", "backbones") : events[i].kw = {"pretrained"}
      /\ (Hparams.training_strategy_kwargs = None /\ StrategyKnown
            /\ EventIdx("get", "embedder_training_strategies") # {})
         => \E i \in EventIdx("call", "embedder_training_strategies") :
                events[i].kw = {"head"}
      /\ (Hparams.pretraining_transform_kwargs = None /\ TransformKnown
            /\ EventIdx("get", "embedder_transforms") # {})
         => \E i \in EventIdx("call", "embedder_transforms") : events[i].kw = {}

\* C2: a returned task has exactly one adapter, created once by the adapter
\* class of the selected strategy's metadata and bound to the task itself, to the
\* first output of the backbone factory and to the loss function, head and hooks
\* the strategy factory returned; the task's adapter reference never changes once
\* it is set.
C2_OneAdapterBound ==
    /\ [](pc = "done" =>
            LET a == Hparams
                strategy == Get(training_strategies, a.training_strategy)
                out == StrategyFactory(strategy.fn, a.head,
                          IF a.training_strategy_kwargs = None
                          THEN EmptyKw ELSE a.training_strategy_kwargs)
                made == BackboneFactory(Get(backbones, a.backbone).fn, a.pretrained,
                          IF a.backbone_kwargs = None
                          THEN EmptyKw ELSE a.backbone_kwargs)
            IN /\ Len(adapters) = 1
               /\ Cardinality(OpIdx("from_task")) = 1
               /\ task.adapter = 1
               /\ adapters[1].cls = strategy.metadata.adapter
               /\ adapters[1].task = "self"
               /\ adapters[1].backbone = made[1]
               /\ adapters[1].backbone # made[2]
               /\ adapters[1].loss_fn = out[1]
               /\ adapters[1].head = out[2]
               /\ adapters[1].hooks = out[3])
    /\ [][task.adapter # 0 => task'.adapter = task.adapter]_vars

\* C2 witness: the dummy backbone and the noop strategy were registered and a task
\* built from them holds that backbone and that head, after a callback has run.
C2_Witness ==
    /\ pc = "done"
    /\ Hparams.backbone = "dummy"
    /\ Hparams.training_strategy = "noop"
    /\ adapters[task.adapter].backbone[2] = "dummy"
    /\ adapters[task.adapter].head[3] = "noop"
    /\ taskCalls # <<>>

\* C3 as stated: if the backbone, strategy or transform key is not registered, the
\* constructor fails with the registry's lookup failure, whatever the other
\* arguments are.
C3_UnknownKeyLookupFailure ==
    (Finished /\ ~(BackboneKnown /\ StrategyKnown /\ TransformKnown))
    => (pc = "failed" /\ IsLookupFailure(error))

\* C3 amended: with an unregistered key the constructor always fails; it fails
\* with the lookup failure of that key's registry whenever every step before the
\* lookup succeeded (an unknown backbone key always, an unknown strategy key once
\* the backbone was built, an unknown transform key once backbone, strategy and
\* adapter were built, with any transform kwargs); otherwise the earlier step's
\* error is the one raised.
C3_UnknownKeyFails ==
    Finished =>
      LET a == Hparams
      IN /\ ~(BackboneKnown /\ StrategyKnown /\ TransformKnown) => pc = "failed"
         /\ ~BackboneKnown => error = LookupFailure("backbones", a.backbone)
         /\ (BackboneKnown /\ Allowed(a.backbone_kwargs) /\ ~StrategyKnown)
            => error = LookupFailure("embedder_training_strategies", a.training_strategy)
         /\ (BackboneKnown /\ Allowed(a.backbone_kwargs) /\ AdapterNamed
               /\ Allowed(a.training_strategy_kwargs) /\ ~TransformKnown)
            => error = LookupFailure("embedder_transforms", a.pretraining_transform)
         /\ (~(BackboneKnown /\ StrategyKnown /\ TransformKnown)
               /\ ~IsLookupFailure(error))
            => \/ /\ BackboneKnown /\ ~Allowed(a.backbone_kwargs)
                  /\ error = FactoryError(Get(backbones, a.backbone).fn, a.backbone_kwargs)
               \/ /\ StrategyKnown /\ ~Allowed(a.training_strategy_kwargs)
                  /\ error = FactoryError(Get(training_strategies, a.training_strategy).fn,
                                          a.training_strategy_kwargs)
               \/ /\ StrategyKnown /\ ~AdapterNamed
                  /\ error = MissingAdapter

\* C3 witness: backbone, strategy and adapter were built, the transform kwargs
\* were omitted, and the unknown transform key raised the lookup failure.
C3_Witness ==
    /\ pc = "failed"
    /\ BackboneKnown /\ AdapterNamed /\ ~TransformKnown
    /\ Hparams.pretraining_transform_kwargs = None
    /\ Len(adapters) = 1
    /\ error = LookupFailure("embedder_transforms", Hparams.pretraining_transform)

\* C4: a constructor that raises raises exactly the error of its first failing
\* step, emits no warning, has set none of the four states on any adapter it
\* created, has called no registry or factory twice, and its task never receives
\* a callback.
C4_AllOrNothing ==
    pc = "failed" =>
      /\ error # NoError
      /\ error = ExpectedError(Hparams)
      /\ warnings = <<>>
      /\ OpIdx("warn") = {}
      /\ OpIdx("set_state") = {}
      /\ \A i \in 1..Len(adapters) :
            adapters[i].states = AdapterClassStates(adapters[i].cls)
      /\ \A r \in Registries :
            /\ Cardinality(EventIdx("get", r)) <= 1
            /\ Cardinality(EventIdx("call", r)) <= 1
      /\ Cardinality(OpIdx("from_task")) <= 1
      /\ taskCalls = <<>>

\* C4 witness: the transform factory refused its kwargs after the adapter, with
\* states of its own, had been created and attached.
C4_Witness ==
    /\ pc = "failed"
    /\ task.adapter = 1
    /\ adapters[1].cls = "NoopAdapter"
    /\ error = FactoryError(Get(transforms, Hparams.pretraining_transform).fn, BogusKw)

\* C5: a constructor that returns has emitted the override warning exactly once,
\* as its last step, after all four states were set on the adapter.
C5_WarnsOnce ==
    pc = "done" =>
      /\ warnings = <<OverrideWarning>>
      /\ OpIdx("warn") = {Len(events)}
      /\ Cardinality(OpIdx("set_state")) = 4
      /\ \A i \in OpIdx("set_state") : i < Len(events)
      /\ \A t \in StateTypes : adapters[task.adapter].states[t] # Absent

\* C5 witness: a task built from user-registered components has warned.
C5_Witness ==
    /\ pc = "done"
    /\ Hparams.training_strategy = "noop"
    /\ Hparams.pretraining_transform = "identity"
    /\ Len(warnings) = 1

\* C6: the adapter of a constructed task has received exactly the calls the task
\* received, same methods, same arguments, same order; a callback appends one
\* call to the adapter's log and changes nothing else of the adapter, of any
\* other adapter or of the task.
C6_PureForwarding ==
    /\ [](pc = "done" => adapters[task.adapter].calls = taskCalls)
    /\ [][taskCalls' # taskCalls =>
            /\ Len(adapters'[task.adapter].calls) = Len(adapters[task.adapter].calls) + 1
            /\ adapters' = [adapters EXCEPT ![task.adapter].calls =
                               adapters'[task.adapter].calls]
            /\ task' = task
            /\ pc' = pc
            /\ warnings' = warnings
            /\ error' = error
            /\ events' = events]_vars

\* C6 witness: on_train_batch_end with distinct batch and dataloader indices was
\* forwarded after another callback.
C6_Witness ==
    /\ pc = "done"
    /\ Len(taskCalls) = 2
    /\ taskCalls[1][1] = "on_train_start"
    /\ taskCalls[2] = <<"on_train_batch_end", <<"outputs", "batch", 1, 0>>>>
    /\ adapters[task.adapter].calls[2] = taskCalls[2]

\* C7: on a returned task the adapter's CollateFn state is the collate function
\* the selected transform factory returned, ToTensorTransform is the returned
\* transform applied to the INPUT key, and PreTensorTransform and
\* PostTensorTransform are None, whatever the adapter carried before.
C7_StatesInstalled ==
    pc = "done" =>
      LET a == Hparams
          out == TransformFactory(Get(transforms, a.pretraining_transform).fn,
                                  a.pretraining_transform_kwargs)
      IN adapters[task.adapter].states =
            [t \in StateTypes |->
                CASE t = "CollateFn" -> out[2]
                  [] t = "ToTensorTransform" -> <<"ApplyToKeys", "input", out[1]>>
                  [] OTHER -> PyNone]

\* C7 witness: the adapter class came with all four states already set, and the
\* constructor replaced them.
C7_Witness ==
    /\ pc = "done"
    /\ adapters[task.adapter].cls = "NoopAdapter"
    /\ \A t \in StateTypes : AdapterClassStates("NoopAdapter")[t] # Absent
    /\ adapters[task.adapter].states["PreTensorTransform"] = PyNone

\* C8: every call of available_training_strategies returns, for ImageEmbedder,
\* the names registered in the training-strategies registry, each once, in
\* registration order, and the empty list for a class without such a registry.
C8_ListsRegisteredKeys ==
    [][listed' # listed =>
         IF listed'.cls = "ImageEmbedder"
         THEN /\ Len(listed'.keys) = Len(training_strategies)
              /\ \A i \in 1..Len(training_strategies) :
                    listed'.keys[i] = training_strategies[i].name
              /\ \A i, j \in 1..Len(listed'.keys) :
                    listed'.keys[i] = listed'.keys[j] => i = j
         ELSE listed'.keys = <<>>]_vars

\* C8 witness: three strategies were listed in registration order, which is not
\* their alphabetical order.
C8_Witness ==
    /\ listed.cls = "ImageEmbedder"
    /\ listed.keys = <<"simclr", "noop", "custom">>

\* C9 as stated: no registry lookup happens after the adapter has been
\* constructed or after the base task has been initialised.
C9_AllLookupsFirst ==
    \A i \in OpIdx("get") :
        \A j \in OpIdx("from_task") \cup OpIdx("base_init") : i < j

\* C9 amended: the backbone and the strategy are resolved through their
\* registries, in that order, before the adapter is constructed; the adapter is
\* constructed before the base task is initialised; the transform is resolved
\* only after the base task has been initialised, and it is the only lookup
\* that follows the adapter's construction.
C9_ControlFlow ==
    /\ \A i \in EventIdx("get", "backbones") :
          \A j \in EventIdx("get", "embedder_training_strategies") : i < j
    /\ \A i \in EventIdx("get", "backbones") \cup
                EventIdx("get", "embedder_training_strategies") :
          \A j \in OpIdx("from_task") : i < j
    /\ \A i \in OpIdx("from_task") : \A j \in OpIdx("base_init") : i < j
    /\ \A j \in EventIdx("get", "embedder_transforms") :
          \E i \in OpIdx("base_init") : i < j
    /\ OpIdx("from_task") # {} =>
          /\ EventIdx("get", "backbones") # {}
          /\ EventIdx("get", "embedder_training_strategies") # {}
    /\ pc = "done" =>
          /\ OpIdx("base_init") # {}
          /\ EventIdx("get", "embedder_transforms") # {}

\* C9 witness: a returned task whose transform was looked up after its adapter
\* had been constructed and its base initialised.
C9_Witness ==
    /\ pc = "done"
    /\ \E i \in OpIdx("base_init") :
          \E j \in EventIdx("get", "embedder_transforms") : i < j

====
